---- MODULE Spec2Model ----
(***************************************************************************)
(* A model of react-model's Model class (src/src/Model.js): a record       *)
(* wrapped in a reactive container.  Every non-function entry becomes a    *)
(* cell with a listener set; watch and pick bind a consumer to cells       *)
(* through React's useSyncExternalStore.                                   *)
(*                                                                         *)
(* The wrapped record of this model is                                     *)
(*     { a: 0, b: 0, watch: 0, setA(value) { this.a = value } }            *)
(* The cell named "watch" shares its name with a method of the Model class.*)
(* "zzz" is a name that was never part of the record.                      *)
(***************************************************************************)
EXTENDS Integers, Sequences, FiniteSets, TLC

\* ------------------------------------------------------------- bounds
\* cell values are 0..MaxVal
MaxVal == 1
\* consumers (components) are 1..NumConsumers; each has one listener callback
NumConsumers == 2

Val == 0..MaxVal
Consumers == 1..NumConsumers

\* ------------------------------------------------------- the record
\* Object.keys(object), in insertion order
RecordKeys == <<"a", "b", "watch", "setA">>
\* the entries with typeof object[key] === 'function'
FunctionKeys == {"setA"}
\* a name that is no key of the record
UnknownKeys == {"zzz"}

RECURSIVE SeqToSet(_)
SeqToSet(s) == IF s = <<>> THEN {} ELSE {Head(s)} \cup SeqToSet(Tail(s))

RECURSIVE SelectSeqNotIn(_, _)
SelectSeqNotIn(s, S) ==
    IF s = <<>> THEN <<>>
    ELSE IF Head(s) \in S THEN SelectSeqNotIn(Tail(s), S)
    ELSE <<Head(s)>> \o SelectSeqNotIn(Tail(s), S)

\* the keys #addProperty gives a listener set (constructor, line 38)
CellKeySeq == SelectSeqNotIn(RecordKeys, FunctionKeys)
CellKeys == SeqToSet(CellKeySeq)
Names == SeqToSet(RecordKeys) \cup UnknownKeys

\* the names k with typeof this[k] === 'function' on the Model instance:
\* its public methods (Object.prototype's are left out)
ModelMembers == {"getProxyObject", "subscribe", "watch", "pick"}

\* --------------------------------------------------------- JS values
\* every value carries all five fields, so that any two can be compared
JSValue(t, n, s, items, keys) ==
    [t |-> t, n |-> n, s |-> s, items |-> items, keys |-> keys]
Undefined == JSValue("undefined", 0, "", <<>>, <<>>)
Null == JSValue("null", 0, "", <<>>, <<>>)
Num(n) == JSValue("number", n, "", <<>>, <<>>)
Str(s) == JSValue("string", 0, s, <<>>, <<>>)
\* a selector function, named by its text (callback.toString())
Fn(s) == JSValue("selector", 0, s, <<>>, <<>>)
\* the record's function s bound to the proxy object
Bound(s) == JSValue("bound", 0, s, <<>>, <<>>)
Arr(items) == JSValue("array", 0, "", items, <<>>)
\* an object literal: keys in for-in order, items[i] the value of keys[i]
Obj(keys, items) == JSValue("object", 0, "", items, keys)
\* the proxy object (the public view) and the Model instance
View == JSValue("view", 0, "", <<>>, <<>>)
ModelInstance == JSValue("model", 0, "", <<>>, <<>>)
\* the closure subscribe(key, listener) returns
UnsubscribeHandle(key, l) == JSValue("unsubscribe", l, key, <<>>, <<>>)
\* a method of the Model class, read from the Model instance
Method(s) == JSValue("method", 0, s, <<>>, <<>>)

TypeOf(v) ==
    CASE v.t = "undefined" -> "undefined"
      [] v.t = "number" -> "number"
      [] v.t = "string" -> "string"
      [] v.t \in {"selector", "bound", "unsubscribe", "method"} -> "function"
      [] OTHER -> "object"

IsArray(v) == v.t = "array"

\* ------------------------------------------------------------ errors
NoError == "none"
ErrNotExist == "ModelError: key does not exist in the model"
ErrWatchArg == "ModelError: Watch requires an array of model keys"
ErrPickArg == "ModelError: Pick requires a model key string, function, or array/object"
ErrPickOne == "ModelError: Pick requires a model key string or function"
ErrTooMany == "ModelError: Too many arguments provided to useModel"
ErrUseModelArg == "ModelError: useModel requires a model key string, function, or array/object"
ErrTrace == "Error: Failed to determine dependencies of a function"
\* what the JavaScript engine and the consumers' own code throw
ErrTrapFalsish == "TypeError: 'set' on proxy: trap returned falsish"
ErrNotFunction == "TypeError: not a function"
ErrReadOnly == "TypeError: Cannot add property, object is not extensible"
ErrThrown == "Error: no"

\* ------------------------------------------------------------- state
VARIABLES
    object,         \* #object: the value of each cell
    proxyObject,    \* #proxyObject's data properties (name -> value); the
                    \* cells are accessor properties and are not listed
    listeners,      \* #listeners: cell key -> its Set, in insertion order
    functionMemos,  \* #functionMemos: selector text -> recorded keys
    handles,        \* unsubscribe closures handed out: <<key, l>> -> "held"
                    \* (not called since it was returned) or "called"
    firstSync,      \* history: selector text -> keys its first pick synced
    traceFailed,    \* history: the selectors whose trial execution threw
    op,             \* the last operation and its arguments
    ret,            \* what it returned (Undefined when it threw)
    err,            \* what it threw (NoError when it returned)
    synced,         \* the keys it called useSyncExternalStore for, in order
    trials,         \* how many trial executions it ran
    traced,         \* the property reads its tracing proxies intercepted
    invoked,        \* the listeners its change dispatches invoked, in order
    seen,           \* the value each of them read back from the written cell
    runs,           \* how many times it called a selector with the view
    order           \* history: cell key -> the pairs <<l1, l2>> of its
                    \* listeners such that l1 was a listener when l2 became
                    \* one, and both have been listeners ever since

vars == <<object, proxyObject, listeners, functionMemos, handles, firstSync,
          traceFailed, op, ret, err, synced, trials, traced, invoked, seen, runs,
          order>>

\* Set.prototype.add: an element already present keeps its place
SetAdd(s, x) == IF x \in SeqToSet(s) THEN s ELSE Append(s, x)
\* Set.prototype.delete
SetDelete(s, x) == SelectSeqNotIn(s, {x})

\* f with f[k] set to v, k added to its domain when absent
Put(f, k, v) == [x \in DOMAIN f \cup {k} |-> IF x = k THEN v ELSE f[x]]

\* constructor (lines 31-43): #addProperty for every key of the record
InitialObject == [k \in CellKeys |-> 0]
InitialProxy == [k \in FunctionKeys |-> Bound(k)]
\* the listener sets, had the constructor made one for every key
InitialListenersAll == [k \in SeqToSet(RecordKeys) |-> <<>>]
InitialListeners == [k \in CellKeys |-> <<>>]

\* history: the registration order after a step that takes the listener sets
\* from ls to ls2.  Only membership is looked at: a pair stays while both
\* listeners stay, and a listener that joins comes after every listener that
\* was there and stays.
Registered(ord, ls, ls2) ==
    [k \in DOMAIN ord |->
        LET was == SeqToSet(ls[k])
            is == SeqToSet(ls2[k])
        IN {p \in ord[k] : p[1] \in is /\ p[2] \in is}
              \cup ((was \cap is) \X (is \ was))]

\* what a listener does when it is invoked, besides re-reading the cell: the
\* listener by subscribes whom to the written cell ("subscribe"), calls the
\* unsubscribe closure of whom for it ("unsubscribe"), or nothing ("none")
Reaction(by, do, whom) == [by |-> by, do |-> do, whom |-> whom]
Quiet == Reaction(0, "none", 0)

NoOp == [name |-> "new", caller |-> 0, key |-> "", val |-> 0, arg |-> Undefined,
         again |-> FALSE, retry |-> FALSE, strict |-> FALSE, re |-> Quiet]

Init ==
    /\ object = InitialObject
    /\ proxyObject = InitialProxy
    /\ listeners = InitialListeners
    /\ functionMemos = <<>>
    /\ handles = <<>>
    /\ firstSync = <<>>
    /\ traceFailed = {}
    /\ op = NoOp
    /\ ret = Undefined
    /\ err = NoError
    /\ synced = <<>>
    /\ trials = 0
    /\ traced = <<>>
    /\ invoked = <<>>
    /\ seen = <<>>
    /\ runs = 0
    /\ order = [k \in CellKeys |-> {}]

\* reading proxyObject[key]: a cell's getter (line 68), a data property, or
\* undefined for a name the proxy object does not have
ViewGet(obj, proxy, key) ==
    IF key \in CellKeys THEN Num(obj[key])
    ELSE IF key \in DOMAIN proxy THEN proxy[key]
    ELSE Undefined

\* ----------------------------------------------- the cell registry
\* the dispatch, had it gone through the listeners last to first
EmitChangeBackwards(ls, key) == [i \in 1..Len(ls[key]) |-> ls[key][Len(ls[key]) + 1 - i]]

\* #emitChange (lines 83-86): every listener of the key, in the Set's order.
\* A listener here is a store-change callback: it re-reads the cell and
\* touches no listener set.
EmitChange(ls, key) == ls[key]

\* the listeners called are invoked while the cells are obj: each, when
\* invoked, reads the cell back through its getter (the getSnapshot of line
\* 113, () => this.#proxyObject[key])
Dispatch(obj, called, key) == [i \in 1..Len(called) |-> obj[key]]

\* the setter, had it emitted the change before storing the value
SetterEmitFirst(obj, proxy, ls, key, v) ==
    [obj |-> [obj EXCEPT ![key] = v],
     proxy |-> proxy,
     invoked |-> EmitChange(ls, key),
     seen |-> Dispatch(obj, EmitChange(ls, key), key)]

\* the setter of a cell (lines 69-72) on the cells obj and the listener sets
\* ls: it stores the value, then emits the change
Setter(obj, proxy, ls, key, v) ==
    [obj |-> [obj EXCEPT ![key] = v],
     proxy |-> proxy,
     invoked |-> EmitChange(ls, key),
     seen |-> Dispatch([obj EXCEPT ![key] = v], EmitChange(ls, key), key)]

\* proxyObject[key] = v on the cells obj, the data properties proxy and the
\* listener sets ls.  A cell goes through its setter; any other name is a
\* plain data property of the proxy object, which is neither frozen nor
\* sealed: the assignment creates or overwrites it.
ViewSet(obj, proxy, ls, key, v) ==
    IF key \in CellKeys
    THEN Setter(obj, proxy, ls, key, v)
    ELSE [obj |-> obj, proxy |-> Put(proxy, key, Num(v)), invoked |-> <<>>,
          seen |-> <<>>]

\* proxyObject[key] = v by code outside the model; op.again says that v is
\* the value the cell already held
Set(key, v) ==
    LET w == ViewSet(object, proxyObject, listeners, key, v)
    IN /\ object' = w.obj
       /\ proxyObject' = w.proxy
       /\ invoked' = w.invoked
       /\ seen' = w.seen
       /\ op' = [NoOp EXCEPT !.name = "set", !.key = key, !.val = v,
                             !.again = (key \in CellKeys /\ object[key] = v)]
       /\ ret' = Undefined
       /\ err' = NoError
       /\ synced' = <<>>
       /\ trials' = 0
       /\ traced' = <<>>
       /\ runs' = 0
       /\ UNCHANGED <<listeners, functionMemos, handles, firstSync, traceFailed,
                      order>>

\* subscribe(key, listener) on listener sets ls (lines 95-102)
SubscribeTo(ls, key, l) == [ls EXCEPT ![key] = SetAdd(@, l)]

\* the closure of line 101, had it kept the listener
UnsubscribeNothing(ls, key, l) == ls

\* the closure of line 101, had it cleared the key's listener set
UnsubscribeAll(ls, key, l) == [ls EXCEPT ![key] = <<>>]

\* the closure of line 101
UnsubscribeFrom(ls, key, l) == [ls EXCEPT ![key] = SetDelete(@, l)]

\* model.subscribe(key, l) called directly
Subscribe(key, l) ==
    /\ IF key \notin DOMAIN listeners
       THEN /\ err' = ErrNotExist
            /\ ret' = Undefined
            /\ UNCHANGED <<listeners, handles>>
       ELSE /\ listeners' = SubscribeTo(listeners, key, l)
            /\ handles' = Put(handles, <<key, l>>, "held")
            /\ err' = NoError
            /\ ret' = UnsubscribeHandle(key, l)
    /\ op' = [NoOp EXCEPT !.name = "subscribe", !.key = key, !.caller = l]
    /\ synced' = <<>>
    /\ trials' = 0
    /\ traced' = <<>>
    /\ invoked' = <<>>
    /\ seen' = <<>>
    /\ runs' = 0
    /\ order' = Registered(order, listeners, listeners')
    /\ UNCHANGED <<object, proxyObject, functionMemos, firstSync, traceFailed>>

\* an unsubscribe closure that was handed out is called (any number of
\* times); op.again says that it had been called since it was handed out
Unsubscribe(key, l) ==
    /\ <<key, l>> \in DOMAIN handles
    /\ listeners' = UnsubscribeFrom(listeners, key, l)
    /\ handles' = Put(handles, <<key, l>>, "called")
    /\ op' = [NoOp EXCEPT !.name = "unsubscribe", !.key = key, !.caller = l,
                          !.again = (handles[<<key, l>>] = "called")]
    /\ ret' = Undefined
    /\ err' = NoError
    /\ synced' = <<>>
    /\ trials' = 0
    /\ traced' = <<>>
    /\ invoked' = <<>>
    /\ seen' = <<>>
    /\ runs' = 0
    /\ order' = Registered(order, listeners, listeners')
    /\ UNCHANGED <<object, proxyObject, functionMemos, firstSync, traceFailed>>

\* ------------------------------------- dispatch to listeners that react
\* The listeners above are the host's store-change callbacks.  subscribe is
\* public (lines 95-102): a listener passed to it by other code may itself
\* call subscribe, or an unsubscribe closure, while it is being invoked.
\* Set.prototype.forEach (line 85) walks the Set's entry list by index: a
\* deleted entry is emptied in place and skipped, an added one is appended
\* and is reached by the walk under way.
Empty == 0

\* Set.prototype.add and delete on the entry list
EntriesAdd(entries, l) ==
    IF l \in SeqToSet(entries) THEN entries ELSE Append(entries, l)
EntriesDelete(entries, l) ==
    [i \in 1..Len(entries) |-> IF entries[i] = l THEN Empty ELSE entries[i]]

\* the listener l runs its reaction on d, the dispatch so far: the entry
\* list of the key's Set and the handles handed out
React(d, key, re, l) ==
    IF re.by # l THEN d
    ELSE IF re.do = "subscribe"
    THEN [d EXCEPT !.entries = EntriesAdd(@, re.whom),
                   !.handles = Put(@, <<key, re.whom>>, "held")]
    ELSE IF re.do = "unsubscribe"
    THEN [d EXCEPT !.entries = EntriesDelete(@, re.whom),
                   !.handles = Put(@, <<key, re.whom>>, "called")]
    ELSE d

\* listener() of line 85 for the listener l
Invoke(d, key, re, l) == React([d EXCEPT !.invoked = Append(@, l)], key, re, l)

\* the forEach of line 85 from entry i on, had it walked a copy of the entry
\* list taken before the first listener ran
RECURSIVE ForEachOfCopy(_, _, _, _, _)
ForEachOfCopy(copy, d, key, re, i) ==
    IF i > Len(copy) THEN d
    ELSE ForEachOfCopy(copy, Invoke(d, key, re, copy[i]), key, re, i + 1)

\* the forEach of line 85 from entry i on
RECURSIVE ForEach(_, _, _, _)
ForEach(d, key, re, i) ==
    IF i > Len(d.entries) THEN d
    ELSE ForEach(IF d.entries[i] = Empty THEN d
                 ELSE Invoke(d, key, re, d.entries[i]),
                 key, re, i + 1)

\* #emitChange, had it dispatched to a copy of the Set
EmitChangeOfCopy(ls, hs, key, re) ==
    ForEachOfCopy(ls[key], [entries |-> ls[key], handles |-> hs, invoked |-> <<>>],
                  key, re, 1)

\* #emitChange (lines 83-86) on listeners that react as re says
EmitChangeReacting(ls, hs, key, re) ==
    ForEach([entries |-> ls[key], handles |-> hs, invoked |-> <<>>], key, re, 1)

\* the outcome d of the dispatch of a write of v to key becomes the state
Dispatched(d, key, v, re) ==
    /\ object' = [object EXCEPT ![key] = v]
    /\ listeners' = [listeners EXCEPT ![key] = SelectSeqNotIn(d.entries, {Empty})]
    /\ handles' = d.handles
    /\ invoked' = d.invoked
    /\ seen' = Dispatch([object EXCEPT ![key] = v], d.invoked, key)
    /\ order' = Registered(order, listeners, listeners')
    /\ op' = [NoOp EXCEPT !.name = "setReacting", !.key = key, !.val = v, !.re = re]
    /\ ret' = Undefined
    /\ err' = NoError
    /\ synced' = <<>>
    /\ trials' = 0
    /\ traced' = <<>>
    /\ runs' = 0
    /\ UNCHANGED <<proxyObject, functionMemos, firstSync, traceFailed>>

\* proxyObject[key] = v for a cell (the setter, lines 69-72) while the
\* cell's listeners react as re says; a listener can call only an
\* unsubscribe closure that was handed out
SetReacting(key, v, re) ==
    /\ key \in CellKeys
    /\ re.do = "unsubscribe" => <<key, re.whom>> \in DOMAIN handles
    /\ Dispatched(EmitChangeReacting(listeners, handles, key, re), key, v, re)

\* ------------------------------------------------------- selectors
\* The selector functions consumers pass to pick, named by their text:
\*   sConst   () => 42
\*   sA       (m) => m.a
\*   sAB      (m) => m.a + m.b
\*   sWatch   (m) => m.watch
\*   sZzz     (m) => m.zzz
\*   sAZzz    (m) => m.a + m.zzz
\*   sCond    (m) => m.a ? m.a + m.b : 0
\*   sAA      (m) => m.a + m.a
\*   sCondZ   (m) => m.a ? m.zzz : m.b
\*   sThrow   (m) => { throw new Error('no') }
\*   sCall    (m) => { m.setA(1); return m.b }
\*   sWrite   (m) => { m.a = 1; return m.b }, in sloppy-mode code
\*   sWriteStrict   (m) => { 'use strict'; m.a = 1; return m.b }
\* SelectorGets: the properties the selector reads, in order, given the cells
SelectorGets(f, obj) ==
    CASE f = "sConst" -> <<>>
      [] f = "sA" -> <<"a">>
      [] f = "sAB" -> <<"a", "b">>
      [] f = "sWatch" -> <<"watch">>
      [] f = "sZzz" -> <<"zzz">>
      [] f = "sAZzz" -> <<"a", "zzz">>
      [] f = "sCond" -> IF obj["a"] # 0 THEN <<"a", "a", "b">> ELSE <<"a">>
      [] f = "sAA" -> <<"a", "a">>
      [] f = "sCondZ" -> IF obj["a"] # 0 THEN <<"a", "zzz">> ELSE <<"a", "b">>
      [] f = "sThrow" -> <<>>
      [] f = "sCall" -> <<"setA", "b">>
      [] f \in {"sWrite", "sWriteStrict"} -> <<"b">>

\* one step of a selector on its argument m: it reads m[key] ("get"),
\* assigns m[key] = val ("set"), calls the function it just read with val
\* ("call") or throws ("throw")
Step(do, key, val) == [do |-> do, key |-> key, val |-> val]
GetSteps(keys) == [i \in 1..Len(keys) |-> Step("get", keys[i], 0)]

\* the steps of the selector, in order, given the cells
SelectorSteps(f, obj) ==
    CASE f = "sThrow" -> <<Step("throw", "", 0)>>
      [] f = "sCall" -> <<Step("get", "setA", 0), Step("call", "setA", 1),
                          Step("get", "b", 0)>>
      [] f \in {"sWrite", "sWriteStrict"} -> <<Step("set", "a", 1), Step("get", "b", 0)>>
      [] OTHER -> GetSteps(SelectorGets(f, obj))

\* whether the selector's code is strict-mode code
StrictCode(f) == f = "sWriteStrict"

\* what a selector that ran to its end on the proxy object returns, given the
\* cells and data properties it left
SelectorValue(f, obj, proxy) ==
    CASE f = "sConst" -> Num(42)
      [] f = "sA" -> Num(obj["a"])
      [] f = "sAB" -> Num(obj["a"] + obj["b"])
      [] f = "sWatch" -> Num(obj["watch"])
      [] f = "sZzz" -> ViewGet(obj, proxy, "zzz")
      [] f = "sAZzz" -> Undefined
      [] f = "sCond" -> IF obj["a"] # 0 THEN Num(obj["a"] + obj["b"]) ELSE Num(0)
      [] f = "sAA" -> Num(obj["a"] + obj["a"])
      [] f = "sCondZ" -> IF obj["a"] # 0 THEN ViewGet(obj, proxy, "zzz") ELSE Num(obj["b"])
      [] f = "sThrow" -> Undefined
      [] f \in {"sCall", "sWrite", "sWriteStrict"} -> Num(obj["b"])

\* ------------------------------------------- the selector engine
\* The state a call works on, threaded through its steps: the cells, the
\* proxy object's data properties, the listener sets, the memos, the handles
\* the host holds, what the call has synced, traced and dispatched so far,
\* and its outcome.
Context(ls, memos, hs) ==
    [obj |-> object, proxy |-> proxyObject, ls |-> ls, memos |-> memos,
     handles |-> hs, synced |-> <<>>, trials |-> 0, traced |-> <<>>,
     invoked |-> <<>>, seen |-> <<>>, runs |-> 0, err |-> NoError,
     ret |-> Undefined]

Throw(ctx, e) == [ctx EXCEPT !.err = e, !.ret = Undefined]
Return(ctx, v) == [ctx EXCEPT !.ret = v]

\* the effect w of an assignment added to the call's state
Effect(ctx, w) ==
    [ctx EXCEPT !.obj = w.obj, !.proxy = w.proxy, !.invoked = @ \o w.invoked,
                !.seen = @ \o w.seen]

\* target[key] = v, where target is the proxy object ("view"), the wrapped
\* record #object ("record") or the Model instance ("model")
Assign(ctx, target, key, v) ==
    CASE target = "view" -> Effect(ctx, ViewSet(ctx.obj, ctx.proxy, ctx.ls, key, v))
      [] target = "record" ->
            IF key \in DOMAIN ctx.obj THEN [ctx EXCEPT !.obj[key] = v] ELSE ctx
      [] target = "model" -> ctx

\* the this of the record's functions, had #addProperty left them unbound
\* or bound them to the wrapped record
BoundThisRecord == "record"

\* the this of the record's functions: line 61 binds them to the proxy object
BoundThis == "view"

\* the record's function setA(value) { this.a = value }, called with value
CallFunction(ctx, f, value) ==
    CASE f = "setA" -> Assign(ctx, BoundThis, "a", value)

\* one step of a selector on the proxy object
RunStep(ctx, s) ==
    CASE s.do = "get" -> ctx
      [] s.do = "set" -> Assign(ctx, "view", s.key, s.val)
      [] s.do = "call" ->
            IF ViewGet(ctx.obj, ctx.proxy, s.key).t = "bound"
            THEN CallFunction(ctx, s.key, s.val)
            ELSE Throw(ctx, ErrNotFunction)
      [] s.do = "throw" -> Throw(ctx, ErrThrown)

\* the steps of a selector on the proxy object, up to the first throw
RECURSIVE RunSteps(_, _)
RunSteps(ctx, steps) ==
    IF steps = <<>> \/ ctx.err # NoError THEN ctx
    ELSE RunSteps(RunStep(ctx, Head(steps)), Tail(steps))

\* the selector ends: it returns its value unless it threw
SelectorReturn(r, f) ==
    IF r.err # NoError THEN r ELSE Return(r, SelectorValue(f, r.obj, r.proxy))

\* callback(this.#proxyObject) (lines 208 and 244)
RunSelector(ctx, f) ==
    SelectorReturn(RunSteps([ctx EXCEPT !.runs = @ + 1], SelectorSteps(f, ctx.obj)), f)

\* useSyncExternalStore(subscribe, getSnapshot, getInitialSnapshot) as called
\* on line 113 for consumer c: the host subscribes c's store-change callback
\* through the subscribe function it is given, (listener) =>
\* this.subscribe(key, listener), and keeps the handle.
UseSyncExternalStore(ctx, key, c) ==
    [ctx EXCEPT !.synced = Append(@, key),
                !.ls = SubscribeTo(@, key, c),
                !.handles = Put(@, <<key, c>>, "held")]

\* #sync(key) (lines 110-114)
Sync(ctx, key, c) ==
    IF key \notin DOMAIN ctx.ls THEN Throw(ctx, ErrNotExist)
    ELSE IF key \in ModelMembers THEN ctx
    ELSE UseSyncExternalStore(ctx, key, c)

\* keys.forEach((key) => this.#sync(key)): the first throw ends the loop
RECURSIVE SyncEach(_, _, _)
SyncEach(ctx, keys, c) ==
    IF keys = <<>> THEN ctx
    ELSE LET r == Sync(ctx, Head(keys), c)
         IN IF r.err # NoError THEN r ELSE SyncEach(r, Tail(keys), c)

\* the get trap of the tracing proxy (lines 217-222): t.reads are the
\* intercepted reads, t.keys the recorded keys
TraceGet(t, prop) ==
    LET t1 == [t EXCEPT !.reads = Append(@, prop)]
    IN IF prop \notin SeqToSet(RecordKeys) THEN [t1 EXCEPT !.err = ErrNotExist]
       ELSE IF prop \in FunctionKeys THEN t1
       ELSE [t1 EXCEPT !.keys = Append(@, prop)]

\* the set trap, had it forwarded the assignment to its target
TraceSetForward(t, prop, value, strict) ==
    IF prop \in DOMAIN t.obj THEN [t EXCEPT !.obj[prop] = value] ELSE t

\* the set trap of the tracing proxy (lines 223-225).  It stores nothing and
\* returns undefined, which tells the engine that the assignment failed: in
\* sloppy-mode code the assignment is then ignored, in strict-mode code it
\* throws a TypeError.
TraceSet(t, prop, value, strict) ==
    IF strict THEN [t EXCEPT !.err = ErrTrapFalsish] ELSE t

\* one step of a selector on the tracing proxy.  t.obj is the wrapped
\* record, the proxy's target (line 212 does not clone it).  The function
\* the get trap hands out for a function key (line 219) does nothing when
\* called.
TraceStep(t, s, strict) ==
    CASE s.do = "get" -> TraceGet(t, s.key)
      [] s.do = "set" -> TraceSet(t, s.key, s.val, strict)
      [] s.do = "call" -> t
      [] s.do = "throw" -> [t EXCEPT !.err = ErrThrown]

\* the steps of a selector on the tracing proxy, up to the first throw
RECURSIVE TraceSteps(_, _, _)
TraceSteps(steps, t, strict) ==
    IF steps = <<>> \/ t.err # NoError THEN t
    ELSE TraceSteps(Tail(steps), TraceStep(t, Head(steps), strict), strict)

\* the trial execution callback(proxy) of line 230
Trial(f, obj) ==
    TraceSteps(SelectorSteps(f, obj),
               [reads |-> <<>>, keys |-> <<>>, obj |-> obj, err |-> NoError],
               StrictCode(f))

\* the Error of line 232: its message holds the selector and the message of
\* what the trial threw
TraceError(f, e) == ErrTrace \o " " \o f \o " " \o e

\* #pickKey(key) (lines 191-196)
PickKey(ctx, key, c) ==
    LET v == ViewGet(ctx.obj, ctx.proxy, key)
    IN IF TypeOf(v) = "function" THEN Return(ctx, v)
       ELSE LET r == Sync(ctx, key, c)
            IN IF r.err # NoError THEN r ELSE Return(r, v)

\* #pickFunction without the memo lookup of lines 206-209
PickFunctionNoMemo(ctx, f, c) ==
    LET t == Trial(f, ctx.obj)
        traced1 == [ctx EXCEPT !.trials = @ + 1, !.traced = @ \o t.reads,
                               !.obj = t.obj]
    IN IF t.err # NoError THEN Throw(traced1, TraceError(f, t.err))
       ELSE LET memoized == [traced1 EXCEPT !.memos = Put(@, f, t.keys)]
                r == SyncEach(memoized, t.keys, c)
            IN IF r.err # NoError THEN r ELSE RunSelector(r, f)

\* #pickFunction, had it written the memo before the trial execution
PickFunctionMemoFirst(ctx, f, c) ==
    IF f \in DOMAIN ctx.memos
    THEN LET r == SyncEach(ctx, ctx.memos[f], c)
         IN IF r.err # NoError THEN r ELSE RunSelector(r, f)
    ELSE LET t == Trial(f, ctx.obj)
             traced1 == [ctx EXCEPT !.trials = @ + 1, !.traced = @ \o t.reads,
                                    !.obj = t.obj, !.memos = Put(@, f, t.keys)]
         IN IF t.err # NoError THEN Throw(traced1, TraceError(f, t.err))
            ELSE LET r == SyncEach(traced1, t.keys, c)
                 IN IF r.err # NoError THEN r ELSE RunSelector(r, f)

\* #pickFunction(callback) (lines 204-245)
PickFunction(ctx, f, c) ==
    IF f \in DOMAIN ctx.memos
    THEN LET r == SyncEach(ctx, ctx.memos[f], c)
         IN IF r.err # NoError THEN r ELSE RunSelector(r, f)
    ELSE LET t == Trial(f, ctx.obj)
             traced1 == [ctx EXCEPT !.trials = @ + 1, !.traced = @ \o t.reads,
                                    !.obj = t.obj]
         IN IF t.err # NoError THEN Throw(traced1, TraceError(f, t.err))
            ELSE LET memoized == [traced1 EXCEPT !.memos = Put(@, f, t.keys)]
                     r == SyncEach(memoized, t.keys, c)
                 IN IF r.err # NoError THEN r ELSE RunSelector(r, f)

\* #pickOne(pick) (lines 172-183)
PickOne(ctx, item, c) ==
    CASE item.t = "string" -> PickKey(ctx, item.s, c)
      [] TypeOf(item) = "function" -> PickFunction(ctx, item.s, c)
      [] OTHER -> Throw(ctx, ErrPickOne)

\* picks.map((pick) => this.#pickOne(pick)) and the for-in loop of
\* #pickObject: the items resolved in order into acc; the first throw ends it
RECURSIVE PickEach(_, _, _, _)
PickEach(ctx, items, c, acc) ==
    IF items = <<>> THEN Return(ctx, Arr(acc))
    ELSE LET r == PickOne(ctx, Head(items), c)
         IN IF r.err # NoError THEN r
            ELSE PickEach(r, Tail(items), c, Append(acc, r.ret))

\* #pickArray(picks) (lines 253-255)
PickArray(ctx, picks, c) == PickEach(ctx, picks.items, c, <<>>)

\* #pickObject, had it collected the picks in a list
PickObjectAsArray(ctx, picks, c) == PickEach(ctx, picks.items, c, <<>>)

\* #pickObject(picks) (lines 263-270): exports[key] for every key of picks
PickObject(ctx, picks, c) ==
    LET r == PickEach(ctx, picks.items, c, <<>>)
    IN IF r.err # NoError THEN r ELSE Return(r, Obj(picks.keys, r.ret.items))

\* pick(arg) (lines 151-164)
Pick(ctx, arg, c) ==
    CASE TypeOf(arg) \in {"string", "function"} -> PickOne(ctx, arg, c)
      [] TypeOf(arg) = "object" ->
            IF IsArray(arg) THEN PickArray(ctx, arg, c) ELSE PickObject(ctx, arg, c)
      [] OTHER -> Throw(ctx, ErrPickArg)

\* the decimal digits of a natural number
RECURSIVE NatToString(_)
NatToString(n) ==
    LET Digits == <<"0", "1", "2", "3", "4", "5", "6", "7", "8", "9">>
    IN IF n < 10 THEN Digits[n + 1]
       ELSE NatToString(n \div 10) \o Digits[(n % 10) + 1]

\* ToString of a value that is no array
PrimitiveString(v) ==
    CASE v.t = "string" -> v.s
      [] v.t = "number" -> NatToString(v.n)
      [] v.t = "undefined" -> "undefined"
      [] v.t = "null" -> "null"
      [] v.t \in {"selector", "bound", "unsubscribe", "method"} -> v.s
      [] OTHER -> "[object Object]"

\* Array.prototype.join: the elements' strings joined by commas, null and
\* undefined elements giving the empty string
RECURSIVE JoinItems(_)
JoinItems(items) ==
    LET first == items[1]
        string == CASE first.t \in {"undefined", "null"} -> ""
                    [] first.t = "array" -> JoinItems(first.items)
                    [] OTHER -> PrimitiveString(first)
    IN IF items = <<>> THEN ""
       ELSE IF Len(items) = 1 THEN string
       ELSE string \o "," \o JoinItems(Tail(items))

\* the property key a value is converted to when it is used as one
\* (hasOwnProperty(key), this[key], this.#listeners[key])
ToPropertyKey(v) == IF v.t = "array" THEN JoinItems(v.items) ELSE PrimitiveString(v)

\* watch(keys) (lines 123-134); Object.keys(this.#listeners) is CellKeySeq
Watch(ctx, keys, c) ==
    IF ~(keys = Undefined \/ IsArray(keys)) THEN Throw(ctx, ErrWatchArg)
    ELSE LET ks == IF keys = Undefined THEN CellKeySeq
                   ELSE [i \in 1..Len(keys.items) |-> ToPropertyKey(keys.items[i])]
             r == SyncEach(ctx, ks, c)
         IN IF r.err # NoError THEN r ELSE Return(r, ModelInstance)

\* methods, had it passed a missing argument on to pick
MethodsUnchecked(ctx, argv, c) ==
    IF Len(argv) > 1 THEN Throw(ctx, ErrTooMany)
    ELSE Pick(ctx, IF argv = <<>> THEN Undefined ELSE argv[1], c)

\* methods, had it treated an array of keys as a watch list
MethodsAsWatch(ctx, argv, c) ==
    IF Len(argv) > 1 THEN Throw(ctx, ErrTooMany)
    ELSE IF Len(argv) = 0 \/ argv[1] = Undefined THEN Throw(ctx, ErrUseModelArg)
    ELSE IF IsArray(argv[1]) THEN Watch(ctx, argv[1], c)
    ELSE Pick(ctx, argv[1], c)

\* methods(args) (lines 313-317), the handle createModel returns, called with
\* the argument list argv
Methods(ctx, argv, c) ==
    IF Len(argv) > 1 THEN Throw(ctx, ErrTooMany)
    ELSE IF Len(argv) = 0 \/ argv[1] = Undefined THEN Throw(ctx, ErrUseModelArg)
    ELSE Pick(ctx, argv[1], c)

\* methods.get (line 319): model.getProxyObject()
MethodsGet(ctx) == Return(ctx, View)

\* methods.watch (line 320)
MethodsWatch(ctx, keys, c) == Watch(ctx, keys, c)

\* ------------------------------------------------- calls by consumers
\* the outcome r of a watch or pick call becomes the state
Finish(r) ==
    /\ object' = r.obj
    /\ proxyObject' = r.proxy
    /\ listeners' = r.ls
    /\ functionMemos' = r.memos
    /\ handles' = r.handles
    /\ synced' = r.synced
    /\ trials' = r.trials
    /\ traced' = r.traced
    /\ err' = r.err
    /\ ret' = IF r.err = NoError THEN r.ret ELSE Undefined
    /\ invoked' = r.invoked
    /\ seen' = r.seen
    /\ runs' = r.runs
    /\ order' = Registered(order, listeners, listeners')

\* history: what the first successful pick of a selector synced
Remember(arg, r) ==
    IF arg.t = "selector" /\ r.err = NoError /\ arg.s \notin DOMAIN firstSync
    THEN Put(firstSync, arg.s, r.synced)
    ELSE firstSync

PickedBefore(arg) == arg.t = "selector" /\ arg.s \in DOMAIN firstSync

\* history: the selectors whose pick ended in the throw of line 232
RememberFailed(arg, r) ==
    IF arg.t = "selector" /\ r.trials = 1 /\ r.runs = 0 /\ r.err # NoError
    THEN traceFailed \cup {arg.s}
    ELSE traceFailed

FailedBefore(arg) == arg.t = "selector" /\ arg.s \in traceFailed

\* consumer c calls model.pick(arg)
PickCall(c, arg) ==
    LET r == Pick(Context(listeners, functionMemos, handles), arg, c)
    IN /\ Finish(r)
       /\ firstSync' = Remember(arg, r)
       /\ traceFailed' = RememberFailed(arg, r)
       /\ op' = [NoOp EXCEPT !.name = "pick", !.caller = c, !.arg = arg,
                             !.again = PickedBefore(arg),
                             !.retry = FailedBefore(arg)]

\* consumer c calls model.watch(keys)
WatchCall(c, keys) ==
    LET r == MethodsWatch(Context(listeners, functionMemos, handles), keys, c)
    IN /\ Finish(r)
       /\ UNCHANGED <<firstSync, traceFailed>>
       /\ op' = [NoOp EXCEPT !.name = "watch", !.caller = c, !.arg = keys]

\* consumer c calls the handle with the arguments argv; op.val is their number
HandleCall(c, argv) ==
    LET r == Methods(Context(listeners, functionMemos, handles), argv, c)
        arg == IF argv = <<>> THEN Undefined ELSE argv[1]
    IN /\ Finish(r)
       /\ firstSync' = Remember(arg, r)
       /\ traceFailed' = RememberFailed(arg, r)
       /\ op' = [NoOp EXCEPT !.name = "handle", !.caller = c, !.arg = arg,
                             !.val = Len(argv), !.again = PickedBefore(arg),
                             !.retry = FailedBefore(arg)]

\* consumer c calls handle.get()
GetCall(c) ==
    LET r == MethodsGet(Context(listeners, functionMemos, handles))
    IN /\ Finish(r)
       /\ UNCHANGED <<firstSync, traceFailed>>
       /\ op' = [NoOp EXCEPT !.name = "get", !.caller = c]

\* code outside the model reads proxyObject[key]
Get(key) ==
    LET ctx == Context(listeners, functionMemos, handles)
    IN /\ Finish(Return(ctx, ViewGet(ctx.obj, ctx.proxy, key)))
       /\ UNCHANGED <<firstSync, traceFailed>>
       /\ op' = [NoOp EXCEPT !.name = "read", !.key = key]

\* reading a property of the Model instance, the object watch returns (line
\* 133).  Its own fields are private; what it has are the methods of its
\* class.  The cells' accessors are properties of #proxyObject (line 67).
InstanceGet(key) == IF key \in ModelMembers THEN Method(key) ELSE Undefined

\* the consumer reads key from the object its watch call just returned, as
\* in watch(['a']).a
ResultGet(key) ==
    LET ctx == Context(listeners, functionMemos, handles)
    IN /\ ret = ModelInstance
       /\ Finish(Return(ctx, InstanceGet(key)))
       /\ UNCHANGED <<firstSync, traceFailed>>
       /\ op' = [NoOp EXCEPT !.name = "resultRead", !.key = key, !.arg = ret]

\* the consumer assigns key on the object its watch call just returned.  The
\* constructor froze the Model instance (line 41): the assignment changes
\* nothing, and throws a TypeError when the assigning code is strict.
ResultSet(key, v, strict) ==
    LET ctx == Context(listeners, functionMemos, handles)
        r == Assign(ctx, "model", key, v)
    IN /\ ret = ModelInstance
       /\ Finish(IF strict THEN Throw(r, ErrReadOnly) ELSE r)
       /\ UNCHANGED <<firstSync, traceFailed>>
       /\ op' = [NoOp EXCEPT !.name = "resultWrite", !.key = key, !.val = v,
                             !.arg = ret, !.strict = strict]

\* code outside the model calls proxyObject[f](v)
CallView(f, v) ==
    LET ctx == Context(listeners, functionMemos, handles)
    IN /\ Finish(IF ViewGet(ctx.obj, ctx.proxy, f).t = "bound"
                 THEN CallFunction(ctx, f, v)
                 ELSE Throw(ctx, ErrNotFunction))
       /\ UNCHANGED <<firstSync, traceFailed>>
       /\ op' = [NoOp EXCEPT !.name = "call", !.key = f, !.val = v]

\* the consumer calls the function its pick call just returned with v
CallResult(v) ==
    LET ctx == Context(listeners, functionMemos, handles)
    IN /\ ret.t = "bound"
       /\ Finish(CallFunction(ctx, ret.s, v))
       /\ UNCHANGED <<firstSync, traceFailed>>
       /\ op' = [NoOp EXCEPT !.name = "call", !.key = ret.s, !.val = v, !.arg = ret]

\* ------------------------------------------------------------ inputs
Selectors ==
    {"sConst", "sA", "sAB", "sWatch", "sZzz", "sAZzz", "sCond", "sAA", "sCondZ",
     "sThrow", "sCall", "sWrite", "sWriteStrict"}

\* the sequences of at most n elements of S
RECURSIVE SeqsUpTo(_, _)
SeqsUpTo(S, n) ==
    IF n = 0 THEN {<<>>}
    ELSE LET shorter == SeqsUpTo(S, n - 1)
         IN shorter \cup {Append(s, x) : s \in {t \in shorter : Len(t) = n - 1}, x \in S}

\* the longest key array a consumer passes
MaxKeys == 2

StrSeq(ks) == [i \in 1..Len(ks) |-> Str(ks[i])]
KeyArrays == {Arr(StrSeq(ks)) : ks \in SeqsUpTo(Names, MaxKeys)}

PickSelectors == {"sConst", "sAB", "sWatch", "sZzz", "sAZzz"}
PickArrays ==
    {Arr(<<>>),
     Arr(<<Str("a"), Fn("sAB")>>),
     Arr(<<Fn("sAB"), Str("b")>>),
     Arr(<<Str("a"), Str("zzz")>>),
     Arr(<<Str("setA"), Str("b")>>),
     Arr(<<Str("b"), Fn("sZzz")>>)}
PickObjects ==
    {Obj(<<>>, <<>>),
     Obj(<<"x", "y">>, <<Str("a"), Fn("sAB")>>),
     Obj(<<"y", "x">>, <<Str("setA"), Str("b")>>),
     Obj(<<"x", "y">>, <<Str("b"), Str("zzz")>>)}
PickInputs ==
    {Str(k) : k \in Names} \cup {Fn(f) : f \in PickSelectors}
        \cup PickArrays \cup PickObjects
HandleInputs ==
    {<<>>, <<Undefined>>, <<Str("a"), Str("b")>>, <<Str("a")>>, <<Fn("sAB")>>}

\* arguments of other shapes than pick and watch document
OddPicks ==
    {Undefined, Null, Num(1),
     Arr(<<Arr(<<Str("a")>>)>>),
     Arr(<<Str("a"), Num(1)>>),
     Arr(<<Null, Str("a")>>),
     Obj(<<"x">>, <<Num(1)>>),
     Obj(<<"x", "y">>, <<Str("b"), Null>>)}
OddWatches ==
    {Null, Num(1), Str("a"), Fn("sA"), Obj(<<"x">>, <<Str("a")>>),
     Arr(<<Num(1)>>),
     Arr(<<Arr(<<Str("a")>>)>>),
     Arr(<<Str("a"), Num(1)>>),
     Arr(<<Null, Str("a")>>),
     Arr(<<Arr(<<Str("a"), Str("b")>>)>>)}
ArgPicks ==
    OddPicks \cup {Str("a"), Fn("sA"), Arr(<<Str("a"), Str("b")>>),
                   Obj(<<"x">>, <<Str("b")>>)}
ArgWatches == OddWatches \cup {Undefined, Arr(<<>>), Arr(<<Str("b")>>)}

\* the selectors whose trial executions are followed
TraceSelectors == {"sAA", "sCondZ", "sThrow", "sCall", "sWrite", "sWriteStrict"}
TracePicks ==
    {Fn(f) : f \in TraceSelectors}
        \cup {Arr(<<Str("b"), Fn("sThrow")>>), Obj(<<"x">>, <<Fn("sAA")>>)}

\* the consumer whose watch and pick calls are followed
Callers == {1}
\* the cells the registry's operations are followed on
RegistryKeys == {"a", "b"}
\* the names written through the view between picks
PickWriteKeys == {"a", "b", "setA"}
\* the names read and written through the view
ViewKeys == {"a", "setA"} \cup UnknownKeys

\* the names the registry is probed with: a cell, a function-backed key and
\* a name the record never had
CellsWriteKeys == {"a"} \cup FunctionKeys \cup UnknownKeys
CellsWatches == {Undefined, Arr(<<Str("a"), Str("setA")>>), Arr(<<Str("zzz")>>)}
CellsPicks == {Str("b"), Str("setA"), Str("zzz"), Fn("sAB"), Fn("sWatch")}

\* what a listener may do during a dispatch
Reactions ==
    {Quiet} \cup {Reaction(by, do, whom) :
                      by \in Consumers, do \in {"subscribe", "unsubscribe"},
                      whom \in Consumers}

\* ---------------------------------------------------- specifications
\* the registry: writes to cells, subscribe and unsubscribe
NextRegistry ==
    \/ \E key \in RegistryKeys, v \in Val : Set(key, v)
    \/ \E key \in RegistryKeys \cup UnknownKeys \cup FunctionKeys, l \in Consumers :
          Subscribe(key, l)
    \/ \E key \in RegistryKeys, l \in Consumers : Unsubscribe(key, l)

SpecRegistry == Init /\ [][NextRegistry]_vars

\* pick, the handle and get, with writes through the view in between
NextPick ==
    \/ \E key \in PickWriteKeys, v \in Val : Set(key, v)
    \/ \E c \in Callers, arg \in PickInputs : PickCall(c, arg)
    \/ \E c \in Callers, argv \in HandleInputs : HandleCall(c, argv)
    \/ \E c \in Callers : GetCall(c)

SpecPick == Init /\ [][NextPick]_vars

\* watch and the handle called with key arrays, with writes in between
NextWatch ==
    \/ \E key \in {"a", "setA"}, v \in Val : Set(key, v)
    \/ \E c \in Callers, keys \in {Undefined} \cup KeyArrays : WatchCall(c, keys)
    \/ \E c \in Callers, keys \in KeyArrays : HandleCall(c, <<keys>>)

SpecWatch == Init /\ [][NextWatch]_vars

\* the view and the objects the calls return: reads, writes and calls of the
\* record's functions, with subscriptions, watch and pick in between
NextView ==
    \/ \E key \in ViewKeys, v \in Val : Set(key, v)
    \/ \E key \in ViewKeys : Get(key)
    \/ \E key \in {"a"} \cup UnknownKeys, l \in Consumers : Subscribe(key, l)
    \/ \E c \in Callers, keys \in {Undefined, Arr(<<Str("a")>>)} : WatchCall(c, keys)
    \/ \E key \in {"a", "watch"} : ResultGet(key)
    \/ \E key \in {"a"}, v \in Val, strict \in BOOLEAN : ResultSet(key, v, strict)
    \/ \E c \in Callers : PickCall(c, Str("setA"))
    \/ \E f \in FunctionKeys, v \in Val : CallView(f, v)
    \/ \E v \in Val : CallResult(v)

SpecView == Init /\ [][NextView]_vars

\* pick, the handle and watch called with arguments of every shape
NextArgs ==
    \/ \E v \in Val : Set("a", v)
    \/ \E c \in Callers, arg \in ArgPicks : PickCall(c, arg)
    \/ \E c \in Callers, arg \in OddPicks : HandleCall(c, <<arg>>)
    \/ \E c \in Callers, keys \in ArgWatches : WatchCall(c, keys)

SpecArgs == Init /\ [][NextArgs]_vars

\* picks of selectors that read a key twice, read conditionally, write, call
\* a function of the record or throw, with writes to a in between
NextTrace ==
    \/ \E v \in Val : Set("a", v)
    \/ \E c \in Callers, arg \in TracePicks : PickCall(c, arg)

SpecTrace == Init /\ [][NextTrace]_vars

\* the cell registry under every kind of operation: writes through the view,
\* subscribe and unsubscribe, watch, pick and calls of the record's function,
\* on cells, function-backed keys and names the record never had
NextCells ==
    \/ \E key \in CellsWriteKeys, v \in Val : Set(key, v)
    \/ \E key \in CellsWriteKeys, l \in Consumers : Subscribe(key, l)
    \/ \E l \in Consumers : Unsubscribe("a", l)
    \/ \E c \in Callers, keys \in CellsWatches : WatchCall(c, keys)
    \/ \E c \in Callers, arg \in CellsPicks : PickCall(c, arg)
    \/ \E f \in FunctionKeys, v \in Val : CallView(f, v)

SpecCells == Init /\ [][NextCells]_vars

\* writes to a whose listeners subscribe and unsubscribe listeners of a
\* while they are invoked, with subscribe and unsubscribe in between
NextDispatch ==
    \/ \E v \in Val, re \in Reactions : SetReacting("a", v, re)
    \/ \E l \in Consumers : Subscribe("a", l)
    \/ \E l \in Consumers : Unsubscribe("a", l)

SpecDispatch == Init /\ [][NextDispatch]_vars

\* every operation
Next ==
    \/ NextDispatch
    \/ NextCells
    \/ NextRegistry
    \/ NextPick
    \/ NextWatch
    \/ NextView
    \/ NextArgs
    \/ NextTrace

Spec == Init /\ [][Next]_vars

\* ------------------------------------------------------------ claims
\* the last operation was a pick (directly or through the handle) of arg
PickedArg == op.name \in {"pick", "handle"} /\ op.val <= 1
PickedSelector == PickedArg /\ op.arg.t = "selector"

Occurrences(s, x) == Cardinality({i \in 1..Len(s) : s[i] = x})
Held(key, l) == <<key, l>> \in DOMAIN handles /\ handles[<<key, l>>] = "held"

\* C1: a pick of a selector that ran its trial execution and read exactly the
\* keys P has called the subscription primitive for every key of P and for
\* no other key, and the caller is a listener of every key of P.
C1_InferenceSoundness ==
    (PickedSelector /\ err = NoError /\ trials = 1) =>
        LET P == SeqToSet(traced)
        IN /\ SeqToSet(synced) = P
           /\ \A k \in P : op.caller \in SeqToSet(listeners[k])

\* C2: a write to a cell invokes every listener that is subscribed to that
\* cell (its handle not called since) exactly once, within the write, and
\* invokes no listener that unsubscribed or that only listens to other cells.
C2_NotificationFanOut ==
    (op.name = "set" /\ op.key \in CellKeys) =>
        \A l \in Consumers :
            Occurrences(invoked, l) = IF Held(op.key, l) THEN 1 ELSE 0

\* a write to a invoked consumer 2 only: consumer 1 had unsubscribed from a
\* and still listens to b
C2_Witness ==
    /\ op.name = "set" /\ op.key = "a"
    /\ invoked = <<2>>
    /\ <<"a", 1>> \in DOMAIN handles /\ handles[<<"a", 1>>] = "called"
    /\ Held("b", 1)

\* C3: a pick of a selector that was picked successfully before runs no trial
\* execution and reads nothing through a tracing proxy, syncs the key set the
\* first pick synced, and returns the selector's value on the cells as they
\* are now.
C3_MemoIdempotence ==
    (PickedSelector /\ op.again) =>
        /\ err = NoError
        /\ trials = 0
        /\ traced = <<>>
        /\ SeqToSet(synced) = SeqToSet(firstSync[op.arg.s])
        /\ ret = SelectorValue(op.arg.s, object, proxyObject)

\* a second pick of (m) => m.a + m.b after both cells were written
C3_Witness ==
    /\ PickedSelector /\ op.again /\ op.arg = Fn("sAB")
    /\ synced = <<"a", "b">>
    /\ ret = Num(2 * MaxVal)

\* what one element of a selection resolves to: the view's property for a
\* key, the selector's value for a selector
Resolution(item) ==
    IF item.t = "string" THEN ViewGet(object, proxyObject, item.s)
    ELSE SelectorValue(item.s, object, proxyObject)

\* C4: a pick of an array returns an array of the same length, and a pick of
\* an object returns an object with the same keys in the same order; element
\* i is the resolution of element i of the argument.
C4_ShapePreservation ==
    (PickedArg /\ op.arg.t \in {"array", "object"} /\ err = NoError) =>
        /\ ret.t = op.arg.t
        /\ ret.keys = op.arg.keys
        /\ Len(ret.items) = Len(op.arg.items)
        /\ \A i \in 1..Len(op.arg.items) : ret.items[i] = Resolution(op.arg.items[i])

\* pick({x: 'a', y: (m) => m.a + m.b}) with a = MaxVal and b = 0
C4_Witness ==
    /\ op.name = "pick"
    /\ op.arg = Obj(<<"x", "y">>, <<Str("a"), Fn("sAB")>>)
    /\ err = NoError
    /\ ret = Obj(<<"x", "y">>, <<Num(MaxVal), Num(MaxVal)>>)

\* the selection (a key, a selector, or an array or object of them) names a
\* key that was never in the record, directly or through a selector's reads
NamesUnknownKey(item) ==
    \/ item.t = "string" /\ item.s \in UnknownKeys
    \/ item.t = "selector" /\ SeqToSet(SelectorGets(item.s, object)) \cap UnknownKeys # {}
MentionsUnknownKey(arg) ==
    \/ NamesUnknownKey(arg)
    \/ \E i \in 1..Len(arg.items) : NamesUnknownKey(arg.items[i])

\* C5: a pick or watch call that names a key that was never in the record
\* raises an error and has called the subscription primitive for no key.
C5_NoPartialSubscription ==
    (op.name \in {"pick", "watch", "handle"} /\ MentionsUnknownKey(op.arg)) =>
        /\ err # NoError
        /\ synced = <<>>

\* C6: a write through the view to a function-backed key raises an error and
\* the view still holds the bound function.
C6_FunctionsReadOnly ==
    (op.name = "set" /\ op.key \in FunctionKeys) =>
        /\ err # NoError
        /\ ViewGet(object, proxyObject, op.key) = Bound(op.key)

\* C7: pick(k) of a function-backed key k returns the bound function and
\* calls the subscription primitive for no key.
C7_PickFunctionKey ==
    (PickedArg /\ op.arg.t = "string" /\ op.arg.s \in FunctionKeys) =>
        /\ err = NoError
        /\ ret = Bound(op.arg.s)
        /\ synced = <<>>

HandleOutcome(c, keys) == Methods(Context(listeners, functionMemos, handles), <<keys>>, c)
WatchOutcome(c, keys) == MethodsWatch(Context(listeners, functionMemos, handles), keys, c)
KeyNames(keys) == [i \in 1..Len(keys.items) |-> keys.items[i].s]

C10_WatchRegistersCells ==
    (op.name = "watch" /\ err = NoError) =>
        LET named == IF op.arg = Undefined THEN CellKeys ELSE SeqToSet(KeyNames(op.arg))
        IN /\ SeqToSet(synced) = named
           /\ \A k \in named : op.caller \in SeqToSet(listeners[k])

\* C11: the object watch(keys) returns exposes the cells: reading a cell key
\* from it yields the cell's current value, and assigning a cell key through
\* it writes the cell and notifies the cell's listeners.
C11_WatchResultExposesCells ==
    /\ (op.name = "resultRead" /\ op.key \in CellKeys) =>
          ret = Num(object[op.key])
    /\ (op.name = "resultWrite" /\ op.key \in CellKeys) =>
          /\ err = NoError
          /\ object[op.key] = op.val
          /\ invoked = EmitChange(listeners, op.key)

\* the property names of the public view: the cells' accessors and the data
\* properties
ViewNames == CellKeys \cup DOMAIN proxyObject

\* C12: in every state after construction the property names of the public
\* view are the keys of the initial record: no operation adds or removes a
\* property.
C12_StructuralImmutability == ViewNames = SeqToSet(RecordKeys)

\* C13: a read or a write through the view of a key that was never in the
\* record raises an error (the read returns no value, the write stores
\* nothing), and subscribe for such a key raises an error and registers
\* nothing.
C13_UnknownKeyRejected ==
    /\ (op.name \in {"read", "set"} /\ op.key \in UnknownKeys) =>
          /\ err # NoError
          /\ op.key \notin DOMAIN proxyObject
    /\ (op.name = "subscribe" /\ op.key \in UnknownKeys) =>
          /\ err # NoError
          /\ ret = Undefined
          /\ op.key \notin DOMAIN listeners
          /\ <<op.key, op.caller>> \notin DOMAIN handles

\* a selection as pick documents it: a key string or a selector function, or
\* an array or an object of those
SelectionItem(v) == v.t \in {"string", "selector"}
WellFormedSelection(arg) ==
    \/ SelectionItem(arg)
    \/ /\ arg.t \in {"array", "object"}
       /\ \A i \in 1..Len(arg.items) : SelectionItem(arg.items[i])
\* the argument of watch as it is documented: omitted, or an array of strings
WellFormedKeys(keys) ==
    \/ keys = Undefined
    \/ /\ keys.t = "array"
       /\ \A i \in 1..Len(keys.items) : keys.items[i].t = "string"

\* C14: pick (directly or through the handle) of anything that is not a key
\* string, a selector, or an array or object of those raises an error and
\* registers nothing; watch of anything that is neither omitted nor an array
\* of strings raises an error and registers nothing.
C14_MalformedRejected ==
    /\ (PickedArg /\ ~WellFormedSelection(op.arg)) =>
          /\ err # NoError
          /\ synced = <<>>
    /\ (op.name = "watch" /\ ~WellFormedKeys(op.arg)) =>
          /\ err # NoError
          /\ synced = <<>>

\* C15: subscribe of a cell key returns an unsubscribe handle and registers
\* the listener.  Calling the handle removes that listener from that key's
\* listener set, leaves every other listener of the key (in its order) and
\* every other key's set as they were, and raises nothing; calling it again
\* changes no listener set and raises nothing.
C15_UnsubscribeExactlyOne ==
    [][LET key == op'.key
           l == op'.caller
       IN /\ (op'.name = "subscribe" /\ key \in CellKeys) =>
                /\ ret' = UnsubscribeHandle(key, l)
                /\ l \in SeqToSet(listeners'[key])
          /\ op'.name = "unsubscribe" =>
                /\ err' = NoError
                /\ \A k \in DOMAIN listeners :
                      listeners'[k] = IF k = key
                                      THEN SelectSeq(listeners[k], LAMBDA x : x # l)
                                      ELSE listeners[k]
                /\ l \notin SeqToSet(listeners'[key])
                /\ op'.again => listeners' = listeners]_vars

\* consumer 1's handle for a was called a second time while consumer 2
\* listens to a and consumer 1 to b
C15_Witness ==
    /\ op.name = "unsubscribe" /\ op.again
    /\ op.key = "a" /\ op.caller = 1
    /\ listeners["a"] = <<2>>
    /\ Held("b", 1)

\* what a direct write view.a = v does in this state: it stores v in the
\* cell a, invokes the listeners of a in their order, each of which reads v
\* back, and changes nothing else
DirectWrite(v) ==
    /\ object' = [object EXCEPT !["a"] = v]
    /\ invoked' = listeners["a"]
    /\ seen' = [i \in 1..Len(listeners["a"]) |-> v]
    /\ err' = NoError
    /\ UNCHANGED <<proxyObject, listeners, functionMemos, handles>>

\* C16: the record's function setA(value) { this.a = value } is bound to the
\* view: called with v through the view, or as the function pick('setA')
\* returned, it writes the cell a and notifies the listeners of a exactly as
\* the direct write view.a = v does.
C16_BoundToView ==
    [][\A v \in Val :
          /\ (CallView("setA", v) /\ ViewGet(object, proxyObject, "setA") = Bound("setA")) =>
                DirectWrite(v)
          /\ (CallResult(v) /\ ret = Bound("setA")) => DirectWrite(v)]_vars

\* the function pick('setA') returned was called with MaxVal while two
\* consumers listened to a: both were invoked and read MaxVal
C16_Witness ==
    /\ op.name = "call" /\ op.arg = Bound("setA") /\ op.val = MaxVal
    /\ object["a"] = MaxVal
    /\ Len(invoked) = 2
    /\ seen = <<MaxVal, MaxVal>>

\* C17: the dependency list recorded for a selector holds each key once, also
\* when the trial execution read the key more than once, and every pick of a
\* selector (the first and the memoized ones) calls the subscription primitive
\* once for each recorded key.
C17_DependencyDedup ==
    /\ \A f \in DOMAIN functionMemos :
          \A k \in SeqToSet(functionMemos[f]) : Occurrences(functionMemos[f], k) = 1
    /\ (PickedSelector /\ err = NoError) =>
          \A k \in SeqToSet(functionMemos[op.arg.s]) : Occurrences(synced, k) = 1

\* the selector assigns a property of its argument or calls a function
\* property of it
Attempts(f, obj) ==
    \E i \in 1..Len(SelectorSteps(f, obj)) : SelectorSteps(f, obj)[i].do \in {"set", "call"}

\* C18: when a pick runs the trial execution of a selector that assigns a
\* property or calls a function property, the trial raises no error and goes
\* on to the selector's end (every read of the selector is intercepted), it
\* leaves every cell of the record as it was, and a pick that raises has
\* changed no cell and invoked no listener.
C18_TrialSideEffectFree ==
    [][(PickedSelector' /\ trials' = 1 /\ Attempts(op'.arg.s, object)) =>
          LET t == Trial(op'.arg.s, object)
          IN /\ t.err = NoError
             /\ t.reads = SelectorGets(op'.arg.s, object)
             /\ t.obj = object
             /\ err' # NoError => (object' = object /\ invoked' = <<>>)]_vars

\* the last operation was a pick of a selector whose trial execution threw
TrialThrew ==
    PickedSelector /\ trials = 1 /\ Trial(op.arg.s, object).err # NoError

\* C19: a pick of a selector whose trial execution throws raises an Error
\* that names the selector and what the trial threw, records no memo for the
\* selector, calls the subscription primitive for no key and does not call
\* the selector with the view; the next pick of that selector (none having
\* succeeded in between) runs a trial execution again.
C19_FailedTraceLeavesNoTrace ==
    /\ TrialThrew =>
          /\ err = TraceError(op.arg.s, Trial(op.arg.s, object).err)
          /\ ret = Undefined
          /\ op.arg.s \notin DOMAIN functionMemos
          /\ synced = <<>>
          /\ runs = 0
    /\ (PickedSelector /\ op.retry /\ ~op.again) => trials = 1

\* (m) => m.a ? m.zzz : m.b was picked while a was not 0 and its trial threw;
\* picked again after a was set to 0, it was traced again and memoized
C19_Witness ==
    /\ PickedSelector /\ op.arg = Fn("sCondZ")
    /\ op.retry /\ ~op.again
    /\ trials = 1
    /\ err = NoError
    /\ functionMemos["sCondZ"] = <<"a", "b">>

\* C20: on every write to a cell through the view the value is stored before
\* any listener is invoked: every listener of the cell is invoked, and each
\* reads the new value back during the dispatch.  This also holds when the
\* value written is the one the cell already held.
C20_WriteThenNotify ==
    (op.name = "set" /\ op.key \in CellKeys) =>
        /\ object[op.key] = op.val
        /\ invoked = listeners[op.key]
        /\ Len(seen) = Len(invoked)
        /\ \A i \in 1..Len(seen) : seen[i] = op.val

\* a held MaxVal and was written MaxVal again: both of its listeners were
\* invoked and read MaxVal back
C20_Witness ==
    /\ op.name = "set" /\ op.key = "a" /\ op.val = MaxVal /\ op.again
    /\ Len(invoked) = 2
    /\ seen = <<MaxVal, MaxVal>>

\* C22: in every state the keys that have a listener set are exactly the
\* non-function keys of the initial record: function-backed keys and names
\* the record never had have none, and no operation creates or removes one.
C22_CellRegistry ==
    /\ DOMAIN listeners = SeqToSet(RecordKeys) \ FunctionKeys
    /\ DOMAIN listeners \cap (FunctionKeys \cup UnknownKeys) = {}

\* a subscribe to the function-backed key was refused while a still had a
\* listener, after a selector was memoised and a name the record never had
\* was written through the view
C22_Witness ==
    /\ op.name = "subscribe" /\ op.key \in FunctionKeys
    /\ err = ErrNotExist
    /\ listeners["a"] # <<>>
    /\ functionMemos # <<>>
    /\ "zzz" \in DOMAIN proxyObject

\* a step that picks (directly or through the handle) a selector whose
\* dependencies were recorded before the step
PicksMemoised ==
    /\ PickedSelector'
    /\ op'.arg.s \in DOMAIN functionMemos

\* C23: a dependency list recorded for a selector is never changed or
\* removed by a later step, and every later pick of that selector calls the
\* subscription primitive for exactly the recorded keys and leaves the caller
\* a listener of each of them, whatever the selector would read on the cells
\* as they are now.
C23_MemoAppendOnly ==
    [][/\ \A f \in DOMAIN functionMemos :
             /\ f \in DOMAIN functionMemos'
             /\ functionMemos'[f] = functionMemos[f]
       /\ PicksMemoised =>
             LET keys == SeqToSet(functionMemos[op'.arg.s])
             IN /\ SeqToSet(synced') = keys
                /\ \A k \in keys : op'.caller \in SeqToSet(listeners'[k])]_vars

\* the place of x in the sequence s, 0 when it is not there
Index(s, x) == IF \E i \in 1..Len(s) : s[i] = x
               THEN CHOOSE i \in 1..Len(s) : s[i] = x
               ELSE 0

\* C21: a write to a cell invokes the listeners of that cell in the order of
\* their registrations: of two listeners subscribed to the key, the one that
\* was a listener when the other became one (counting each from its latest
\* entry into the set) is invoked, and is invoked first.
C21_RegistrationOrder ==
    (op.name = "set" /\ op.key \in CellKeys) =>
        \A p \in order[op.key] :
            /\ Index(invoked, p[1]) > 0
            /\ Index(invoked, p[1]) < Index(invoked, p[2])

\* a write to a invoked consumer 2 before consumer 1: consumer 2 was a
\* listener of a when consumer 1 last became one
C21_Witness ==
    /\ op.name = "set" /\ op.key = "a"
    /\ invoked = <<2, 1>>
    /\ order["a"] = {<<2, 1>>}
    /\ Held("a", 1) /\ Held("a", 2)

\* C24: the listeners one write to a cell invokes are the listeners the cell
\* had when the write began, each once, whatever the listeners subscribe or
\* unsubscribe while the dispatch runs.
C24_DispatchSnapshot ==
    [][op'.name = "setReacting" =>
          /\ SeqToSet(invoked') = SeqToSet(listeners[op'.key])
          /\ Len(invoked') = Len(listeners[op'.key])]_vars

====
